---- MODULE Spec2Model ----
(***************************************************************************)
(* A model of src/primitives/context/create_context.rs: the context pair   *)
(* factory (create_context), the scoped context registry                   *)
(* (create_context_scope / ContextCreator) and the scope hook composer     *)
(* (compose_context_scopes).                                               *)
(*                                                                         *)
(* Rust values are modelled as follows.                                    *)
(*   - A type parameter is the string of its type name ("T", "Option<T>"); *)
(*     the ambient context store of the host framework is keyed by it.     *)
(*   - A value behind dyn Any is a record [ty, some, val]: its type name   *)
(*     and its payload (an integer of T, or an Option<T> as some/val).     *)
(*   - Option<X> is a record [some, val]; HashMap<String, X> is a function *)
(*     whose domain is a set of strings; Vec<X> is a sequence.             *)
(*   - Rc / Arc pointers are indices into the tables `registries` and      *)
(*     `factories`.                                                        *)
(***************************************************************************)
EXTENDS Integers, Sequences, FiniteSets, TLC

VARIABLES
    registries,      \* ContextCreator objects with the contexts vector they share
    pairs,           \* per registry: the (ContextProvider, ContextConsumer) pairs create returned
    factories,       \* the ScopeHookFactory objects built so far (Arc targets)
    hook,            \* the ScopeHook last obtained by calling a factory
    lastCall,        \* the last invocation of a scope hook: input, fold, result
    ctx,             \* what create_context's closures captured: root name and default
    tree,            \* the mounted component scopes, root first, each the parent of the next
    outcome          \* what the last consumer call did: returned a value or panicked

vars == <<registries, pairs, factories, hook, lastCall,
          ctx, tree, outcome>>

scopeVars == <<registries, pairs, factories, hook, lastCall>>
renderVars == <<ctx, tree, outcome>>

-----------------------------------------------------------------------------
(* Bounds of the model *)

MaxRegistries == 2
MaxCreates == 2
MaxFactories == 3
MaxDepth == 2

-----------------------------------------------------------------------------
(* Values *)

Values == {1, 2}

\* The filler of an absent payload.
Nil == [ty |-> "", some |-> FALSE, val |-> 0]

\* A value of type T behind dyn Any.
AnyT(v) == [ty |-> "T", some |-> TRUE, val |-> v]

\* A value of type Option<T> behind dyn Any.
AnyNone == [ty |-> "Option<T>", some |-> FALSE, val |-> 0]
AnySome(v) == [ty |-> "Option<T>", some |-> TRUE, val |-> v]

\* Rc::new(()) of line 187.
UnitAny == [ty |-> "()", some |-> FALSE, val |-> 0]

None == [some |-> FALSE, val |-> Nil]
Some(x) == [some |-> TRUE, val |-> x]

ValuesOf(ty) ==
    IF ty = "T" THEN {AnyT(v) : v \in Values}
    ELSE {AnyNone} \cup {AnySome(v) : v \in Values}

OptionsOf(ty) == {None} \cup {Some(x) : x \in ValuesOf(ty)}

EmptyMap == [k \in {} |-> Nil]

\* HashMap::insert: the entry for k is added, or replaced when present.
MapInsert(m, k, v) == [x \in DOMAIN m \cup {k} |-> IF x = k THEN v ELSE m[x]]

\* A faulty ChainCollect: an entry already in acc is kept.
ChainCollectKeepFirst(acc, scope_props) ==
    [k \in DOMAIN acc \cup DOMAIN scope_props |->
        IF k \in DOMAIN acc THEN acc[k] ELSE scope_props[k]]

\* acc.into_iter().chain(scope_props.into_iter()).collect(): the entries are
\* inserted in that order, so an entry of scope_props replaces one of acc.
ChainCollect(acc, scope_props) ==
    [k \in DOMAIN acc \cup DOMAIN scope_props |->
        IF k \in DOMAIN scope_props THEN scope_props[k] ELSE acc[k]]

NoneScope == [some |-> FALSE, map |-> EmptyMap]
SomeScope(m) == [some |-> TRUE, map |-> m]

-----------------------------------------------------------------------------
(* ContextCreator::create *)

ScopeNames == {"A", "B"}
RootNames == {"Tooltip"}

\* A faulty NextIndex: indices counted from one.
NextIndexFromOne(contexts) == Len(contexts) + 1

\* let index = contexts_mut.len();
NextIndex(contexts) == Len(contexts)

\* contexts_mut.push(default_context.clone().map(|ctx| Rc::new(ctx) as Rc<dyn Any>))
PushDefault(contexts, default_context) == Append(contexts, default_context)

ContextProvider(scope_name, index, ty) ==
    [scope_name |-> scope_name, index |-> index, ty |-> ty]

ContextConsumer(scope_name, index, default_context, root_name, ty) ==
    [scope_name |-> scope_name, index |-> index,
     default_context |-> default_context, root_name |-> root_name, ty |-> ty]

\* The pair create returns on registry reg.
CreatedPair(reg, ty, root_name, default_context) ==
    LET index == NextIndex(reg.contexts)
    IN [provider |-> ContextProvider(reg.scope_name, index, ty),
        consumer |-> ContextConsumer(reg.scope_name, index, default_context,
                                     root_name, ty)]

CreateIn(regs, r, default_context) ==
    [regs EXCEPT ![r].contexts = PushDefault(@, default_context)]

CreateInPairs(ps, regs, r, ty, root_name, default_context) ==
    [ps EXCEPT ![r] = Append(@, CreatedPair(regs[r], ty, root_name, default_context))]

\* No hook obtained yet, and no invocation made in this step.
NoHook == [factory |-> 0, created |-> 0,
           hook |-> [kind |-> "", scope_name |-> "", contexts |-> 0, hooks |-> <<>>]]

NoCall == [hook |-> NoHook, scope |-> NoneScope, calls |-> <<>>,
           next_scopes |-> EmptyMap, result |-> EmptyMap]

RECURSIVE Creates(_)
\* The number of create calls made so far, over all registries.
Creates(regs) ==
    IF regs = <<>> THEN 0
    ELSE Len(regs[Len(regs)].contexts) + Creates(SubSeq(regs, 1, Len(regs) - 1))

Create(r, ty, root_name, default_context) ==
    /\ r \in 1..Len(registries)
    /\ Creates(registries) < MaxCreates
    /\ registries' = CreateIn(registries, r, default_context)
    /\ pairs' = CreateInPairs(pairs, registries, r, ty, root_name, default_context)
    /\ lastCall' = NoCall
    /\ UNCHANGED <<factories, hook, renderVars>>

-----------------------------------------------------------------------------
(* create_context_scope and compose_context_scopes *)

BaseFactory(scope_name, contexts) ==
    [kind |-> "base", scope_name |-> scope_name, contexts |-> contexts, subs |-> <<>>]

ComposedFactory(fs) ==
    [kind |-> "composed", scope_name |-> "", contexts |-> 0, subs |-> fs]

NewRegistry(scope_name) == [scope_name |-> scope_name, contexts |-> <<>>]

\* compose_context_scopes(fs) on the table tab: the table afterwards and the
\* factory returned. A list of one factory is returned as it is.
ComposeResult(tab, fs) ==
    IF Len(fs) = 1
    THEN [tab |-> tab, ret |-> fs[1]]
    ELSE [tab |-> Append(tab, ComposedFactory(fs)), ret |-> Len(tab) + 1]

\* The factories create_context_scope builds: the base factory, composed
\* with deps when there are any.
ScopeFactories(tab, scope_name, contexts, deps) ==
    LET withBase == Append(tab, BaseFactory(scope_name, contexts))
        base == Len(withBase)
    IN IF deps = <<>>
       THEN [tab |-> withBase, ret |-> base, composed |-> FALSE]
       ELSE LET c == ComposeResult(withBase, <<base>> \o deps)
            IN [tab |-> c.tab, ret |-> c.ret, composed |-> TRUE]

\* The lists of at most one and at most two of the factories built so far.
DepLists == {<<>>} \cup {<<f>> : f \in 1..Len(factories)}
FactoryLists ==
    DepLists \cup {fs \in {<<f, g>> : f \in 1..Len(factories), g \in 1..Len(factories)} :
                     fs[1] # fs[2]}

CreateContextScope(scope_name, deps) ==
    /\ Len(registries) < MaxRegistries
    /\ LET r == Len(registries) + 1
           res == ScopeFactories(factories, scope_name, r, deps)
       IN /\ Len(res.tab) <= MaxFactories
          /\ registries' = Append(registries, NewRegistry(scope_name))
          /\ pairs' = Append(pairs, <<>>)
          /\ factories' = res.tab
    /\ lastCall' = NoCall
    /\ UNCHANGED <<hook, renderVars>>

ComposeContextScopes(fs) ==
    /\ LET res == ComposeResult(factories, fs)
       IN /\ Len(res.tab) <= MaxFactories
          /\ factories' = res.tab
    /\ lastCall' = NoCall
    /\ UNCHANGED <<registries, pairs, hook, renderVars>>

-----------------------------------------------------------------------------
(* Scope hooks *)

RECURSIVE FactoryCall(_, _)
\* Calling factory f: the base factory clones scope_name and the contexts
\* pointer into its hook; a composed factory calls every factory it holds.
FactoryCall(tab, f) ==
    IF tab[f].kind = "base"
    THEN [kind |-> "base", scope_name |-> tab[f].scope_name,
          contexts |-> tab[f].contexts, hooks |-> <<>>]
    ELSE [kind |-> "composed", scope_name |-> "", contexts |-> 0,
          hooks |-> [i \in 1..Len(tab[f].subs) |-> FactoryCall(tab, tab[f].subs[i])]]

\* A faulty ContextsVec: a context with no default is left out.
ContextsVecSkipNone(contexts) ==
    LET given == SelectSeq(contexts, LAMBDA c : c.some)
    IN [i \in 1..Len(given) |-> given[i].val]

\* .map(|ctx| ctx.clone().unwrap_or_else(|| Rc::new(())))
ContextsVec(contexts) ==
    [i \in 1..Len(contexts) |-> IF contexts[i].some THEN contexts[i].val ELSE UnitAny]

\* A faulty UnwrapScope: the new scope starts empty.
UnwrapScopeFresh(scope) == EmptyMap

\* scope.unwrap_or_else(|| HashMap::new())
UnwrapScope(scope) == IF scope.some THEN scope.map ELSE EmptyMap

\* format!("__scope{}", name)
ScopeKey(name) == "__scope" \o name

\* The hook of a base factory, on the contexts vector as it is now.
BaseHook(scope_name, contexts, scope) ==
    LET new_scope == MapInsert(UnwrapScope(scope), scope_name, ContextsVec(contexts))
    IN MapInsert(EmptyMap, ScopeKey(scope_name), SomeScope(new_scope))

\* hook(scope.clone()): the argument a constituent hook is called with.
HookArg(scope) == scope

\* next_scopes.values().next(): HashMap iterates in no fixed order, so any
\* of its values may come first.
FirstValues(next_scopes) == {next_scopes[k] : k \in DOMAIN next_scopes}

\* A faulty Reduce: the folded map is returned as it is.
ReduceKeepAll(next_scopes) == {next_scopes}

\* The mappings the composed hook may return for the folded map.
Reduce(next_scopes) ==
    IF DOMAIN next_scopes = {}
    THEN {EmptyMap}
    ELSE {MapInsert(EmptyMap, ScopeKey("baseScope"), first_scope) :
            first_scope \in FirstValues(next_scopes)}

RECURSIVE HookRun(_, _), FoldHooks(_, _, _)
\* The runs of hook h on scope: each the constituent calls made (argument
\* and output), the folded map and the mapping returned.
HookRun(h, scope) ==
    IF h.kind = "base"
    THEN {[calls |-> <<>>, next_scopes |-> EmptyMap,
           result |-> BaseHook(h.scope_name, registries[h.contexts].contexts, scope)]}
    ELSE UNION {
           {[calls |-> f.calls, next_scopes |-> f.acc, result |-> res] :
              res \in Reduce(f.acc)} :
           f \in FoldHooks(h.hooks, scope, Len(h.hooks))}

\* hooks.iter().fold(HashMap::new(), ...) over the first n hooks.
FoldHooks(hs, scope, n) ==
    IF n = 0
    THEN {[acc |-> EmptyMap, calls |-> <<>>]}
    ELSE UNION {
           {[acc |-> ChainCollect(f.acc, run.result),
             calls |-> Append(f.calls, [arg |-> HookArg(scope), out |-> run.result])] :
              run \in HookRun(hs[n], HookArg(scope))} :
           f \in FoldHooks(hs, scope, n - 1)}

\* The scopes a hook is invoked on.
InputScopes ==
    {NoneScope,
     SomeScope(MapInsert(MapInsert(EmptyMap, "A", <<AnyT(2)>>), "C", <<UnitAny>>))}

\* factory(): a hook is obtained. With it are kept the factory called and
\* the number of create calls made before.
CallFactory(f) ==
    /\ f \in 1..Len(factories)
    /\ hook' = [factory |-> f, created |-> Creates(registries),
                hook |-> FactoryCall(factories, f)]
    /\ lastCall' = NoCall
    /\ UNCHANGED <<registries, pairs, factories, renderVars>>

\* hook(scope)
InvokeHook(scope) ==
    /\ hook # NoHook
    /\ \E run \in HookRun(hook.hook, scope) :
          lastCall' = [hook |-> hook, scope |-> scope, calls |-> run.calls,
                       next_scopes |-> run.next_scopes, result |-> run.result]
    /\ UNCHANGED <<registries, pairs, factories, hook, renderVars>>

-----------------------------------------------------------------------------
(* The host framework's ambient context store *)

\* std::any::type_name of Memo<X> and of Option<X>, for X of type name ty.
MemoType(ty) == "Memo<" \o ty \o ">"
OptionType(ty) == "Option<" \o ty \o ">"

\* The Memo<X> handle the basic Provider stores, read as its current value.
AnyMemo(x) == [ty |-> MemoType(x.ty), some |-> x.some, val |-> x.val]

\* An Option<T> taken out of the store, as the Option it is.
AsOption(any) == IF any.some THEN Some(AnyT(any.val)) ELSE None

\* Whether string s holds string t.
Contains(s, t) ==
    \E i \in 1..(Len(s) - Len(t) + 1) : SubSeq(s, i, i + Len(t) - 1) = t

\* use_context_provider(|| value) in a component scope: the value is stored
\* under the name of its own type.
UseContextProvider(provided, value) == MapInsert(provided, value.ty, value)

\* The component scopes, nearest first, that hold a value of type key among
\* the d outermost scopes of tree t.
Holders(t, d, key) == {i \in 1..d : key \in DOMAIN t[i].provided}

Nearest(S) == CHOOSE i \in S : \A j \in S : j <= i

\* use_context::<X>() in a component beneath the d outermost scopes: the
\* value of the nearest scope that holds one of type key, or the panic of
\* the host framework when no scope does.
UseContext(t, d, key) ==
    IF Holders(t, d, key) = {}
    THEN [found |-> FALSE, val |-> Nil, message |-> "Could not find context " \o key]
    ELSE [found |-> TRUE, val |-> t[Nearest(Holders(t, d, key))].provided[key],
          message |-> ""]

-----------------------------------------------------------------------------
(* create_context: the Provider component and use_ctx *)

ConsumerNames == {"useTooltipContext"}

\* A component scope not rendered yet.
FreshScope(kind, pair) ==
    [kind |-> kind, pair |-> pair, rendered |-> FALSE, value |-> Nil,
     context_signal |-> Nil, memoized_value |-> Nil, memo_runs |-> 0,
     provided |-> EmptyMap]

\* One render of the Provider component with props value. Each of its three
\* hooks runs its initialiser on the first render only.
ProviderRender(node, value) ==
    IF ~node.rendered
    THEN [node EXCEPT !.rendered = TRUE,
                      !.value = value,
                      !.context_signal = value,
                      !.memoized_value = value,
                      !.memo_runs = 1,
                      !.provided = UseContextProvider(@, AnyMemo(value))]
    ELSE [node EXCEPT !.value = value]

\* One render of a component that calls ContextProvider::render(value,
\* scope, children); the scope argument is not read.
ContextProviderRender(node, value) ==
    IF ~node.rendered
    THEN [node EXCEPT !.rendered = TRUE,
                      !.value = value,
                      !.provided = UseContextProvider(@, value)]
    ELSE [node EXCEPT !.value = value]

\* The backquote of the message, written ' here: a TLA+ string holds none.
Tick == "'"

\* panic!(".{}. must be used within .{}.", consumer_name, root_name), each
\* dot a backquote.
PanicMessage(consumer_name, root_name) ==
    Tick \o consumer_name \o Tick \o " must be used within " \o Tick \o root_name \o Tick

\* The body of use_ctx and of ContextConsumer::consume for bound type ty
\* (the scope argument of consume is not read).
ConsumeContext(t, d, ty, default_context, consumer_name, root_name) ==
    LET context == UseContext(t, d, OptionType(ty))
    IN IF ~context.found
       THEN [kind |-> "panic", value |-> Nil, message |-> context.message]
       ELSE IF AsOption(context.val).some
       THEN [kind |-> "return", value |-> AsOption(context.val).val, message |-> ""]
       ELSE IF default_context.some
       THEN [kind |-> "return", value |-> default_context.val, message |-> ""]
       ELSE [kind |-> "panic", value |-> Nil,
             message |-> PanicMessage(consumer_name, root_name)]

NoOutcome == [kind |-> "none", value |-> Nil, message |-> "", pair |-> <<>>,
              depth |-> 0, consumer_name |-> "", root_name |-> "",
              default_context |-> None]

\* The pair of create_context itself, as opposed to <<r, k>> of a registry.
Basic == <<0, 0>>

Called(res, pair, d, consumer_name, root_name, default_context) ==
    [kind |-> res.kind, value |-> res.value, message |-> res.message,
     pair |-> pair, depth |-> d, consumer_name |-> consumer_name,
     root_name |-> root_name, default_context |-> default_context]

\* The Provider of create_context is mounted beneath the innermost scope.
MountProvider(value) ==
    /\ Len(tree) < MaxDepth
    /\ tree' = Append(tree, ProviderRender(FreshScope("Provider", Basic), value))
    /\ outcome' = NoOutcome
    /\ UNCHANGED <<scopeVars, ctx>>

\* A mounted Provider is rendered again, with the same props or new ones.
RerenderProvider(i, value) ==
    /\ i \in 1..Len(tree)
    /\ tree[i].kind = "Provider"
    /\ tree' = [tree EXCEPT ![i] = ProviderRender(@, value)]
    /\ outcome' = NoOutcome
    /\ UNCHANGED <<scopeVars, ctx>>

\* A component calling the render of pair k of registry r is mounted.
MountContextProvider(r, k, value) ==
    /\ Len(tree) < MaxDepth
    /\ r \in 1..Len(pairs) /\ k \in 1..Len(pairs[r])
    /\ value \in ValuesOf(pairs[r][k].provider.ty)
    /\ tree' = Append(tree, ContextProviderRender(FreshScope("ContextProvider", <<r, k>>), value))
    /\ outcome' = NoOutcome
    /\ UNCHANGED <<scopeVars, ctx>>

RerenderContextProvider(i, value) ==
    /\ i \in 1..Len(tree)
    /\ tree[i].kind = "ContextProvider"
    /\ value \in ValuesOf(pairs[tree[i].pair[1]][tree[i].pair[2]].provider.ty)
    /\ tree' = [tree EXCEPT ![i] = ContextProviderRender(@, value)]
    /\ outcome' = NoOutcome
    /\ UNCHANGED <<scopeVars, ctx>>

\* use_ctx(consumer_name) in a component beneath the d outermost scopes.
UseCtx(d, consumer_name) ==
    /\ d \in 0..Len(tree)
    /\ outcome' = Called(ConsumeContext(tree, d, "T", ctx.default_context,
                                        consumer_name, ctx.root_component_name),
                         Basic, d, consumer_name, ctx.root_component_name,
                         ctx.default_context)
    /\ UNCHANGED <<scopeVars, ctx, tree>>

\* The consume of pair k of registry r, beneath the d outermost scopes.
Consume(r, k, d, consumer_name) ==
    /\ d \in 0..Len(tree)
    /\ r \in 1..Len(pairs) /\ k \in 1..Len(pairs[r])
    /\ LET c == pairs[r][k].consumer
       IN outcome' = Called(ConsumeContext(tree, d, c.ty, c.default_context,
                                           consumer_name, c.root_name),
                            <<r, k>>, d, consumer_name, c.root_name, c.default_context)
    /\ UNCHANGED <<scopeVars, ctx, tree>>

-----------------------------------------------------------------------------

ScopeDefaults == {None, Some(AnyT(1))}

InitScope ==
    /\ registries = <<>>
    /\ pairs = <<>>
    /\ factories = <<>>
    /\ hook = NoHook
    /\ lastCall = NoCall
    /\ ctx = [root_component_name |-> "Tooltip", default_context |-> None]
    /\ tree = <<>>
    /\ outcome = NoOutcome

NextScope ==
    \/ \E n \in ScopeNames, deps \in DepLists : CreateContextScope(n, deps)
    \/ \E r \in 1..MaxRegistries, root \in RootNames, d \in ScopeDefaults :
          Create(r, "T", root, d)
    \/ \E fs \in FactoryLists : ComposeContextScopes(fs)
    \/ \E f \in 1..MaxFactories : CallFactory(f)
    \/ \E s \in InputScopes : InvokeHook(s)

SpecScope == InitScope /\ [][NextScope]_vars

\* The state after create_context::<T>(root, d) and, on a registry "A" of
\* its own, create::<T>(root, d0) and create::<Option<T>>(root, None).
InitRender ==
    \E root \in RootNames, d \in OptionsOf("T"), d0 \in OptionsOf("T") :
       LET fs == ScopeFactories(<<>>, "A", 1, <<>>)
           regs0 == <<NewRegistry("A")>>
           ps1 == CreateInPairs(<<(<<>>)>>, regs0, 1, "T", root, d0)
           regs1 == CreateIn(regs0, 1, d0)
           ps2 == CreateInPairs(ps1, regs1, 1, "Option<T>", root, None)
           regs2 == CreateIn(regs1, 1, None)
       IN /\ registries = regs2
          /\ pairs = ps2
          /\ factories = fs.tab
          /\ hook = NoHook
          /\ lastCall = NoCall
          /\ ctx = [root_component_name |-> root, default_context |-> d]
          /\ tree = <<>>
          /\ outcome = NoOutcome

NextRender ==
    \/ \E v \in ValuesOf("T") : MountProvider(v)
    \/ \E i \in 1..MaxDepth, v \in ValuesOf("T") : RerenderProvider(i, v)
    \/ \E r \in 1..MaxRegistries, k \in 1..MaxCreates, v \in ValuesOf("T") \cup ValuesOf("Option<T>") :
          MountContextProvider(r, k, v)
    \/ \E i \in 1..MaxDepth, v \in ValuesOf("T") \cup ValuesOf("Option<T>") :
          RerenderContextProvider(i, v)
    \/ \E d \in 0..MaxDepth, n \in ConsumerNames : UseCtx(d, n)
    \/ \E r \in 1..MaxRegistries, k \in 1..MaxCreates, d \in 0..MaxDepth, n \in ConsumerNames :
          Consume(r, k, d, n)

SpecRender == InitRender /\ [][NextRender]_vars

-----------------------------------------------------------------------------
(* Properties *)

\* The defaults given to the create calls made on registry r so far, in call
\* order, as the consumers returned hold them; the unit value for none.
Registered(r) ==
    [i \in 1..Len(pairs[r]) |->
        IF pairs[r][i].consumer.default_context.some
        THEN pairs[r][i].consumer.default_context.val
        ELSE UnitAny]

Invoked == lastCall # NoCall
InvokedBase == Invoked /\ lastCall.hook.hook.kind = "base"
InvokedComposed == Invoked /\ lastCall.hook.hook.kind = "composed"

\* The hook invoked is composed of exactly two base hooks.
InvokedTwoBase ==
    /\ InvokedComposed
    /\ Len(lastCall.hook.hook.hooks) = 2
    /\ \A i \in 1..2 : lastCall.hook.hook.hooks[i].kind = "base"

\* The component scopes among the d outermost that render the provider of pair.
Enclosing(pair, d) == {i \in 1..d : tree[i].pair = pair}

ConsumerCalled == outcome.kind # "none"

\* C1: a consumer called beneath a provider of its own pair returns the value
\* that provider was rendered with.
C1_RoundTrip ==
    (ConsumerCalled /\ Enclosing(outcome.pair, outcome.depth) # {})
        => /\ outcome.kind = "return"
           /\ outcome.value = tree[Nearest(Enclosing(outcome.pair, outcome.depth))].value

\* C2: a consumer called beneath no provider, from a pair created with no
\* default, panics with a message that holds the consumer name and the root
\* name.
C2_PanicNamesBoth ==
    (ConsumerCalled /\ outcome.depth = 0 /\ ~outcome.default_context.some)
        => /\ outcome.kind = "panic"
           /\ Contains(outcome.message, outcome.consumer_name)
           /\ Contains(outcome.message, outcome.root_name)

\* C3: a consumer called beneath no provider, from a pair created with
\* default d, returns d.
C3_DefaultFallback ==
    (ConsumerCalled /\ outcome.depth = 0 /\ outcome.default_context.some)
        => /\ outcome.kind = "return"
           /\ outcome.value = outcome.default_context.val

IndicesInOrder ==
    \A r \in 1..Len(pairs) :
        /\ Len(pairs[r]) = Len(registries[r].contexts)
        /\ \A k \in 1..Len(pairs[r]) :
              /\ pairs[r][k].provider.index = k - 1
              /\ pairs[r][k].consumer.index = k - 1
              /\ pairs[r][k].provider.scope_name = registries[r].scope_name
              /\ pairs[r][k].consumer.scope_name = registries[r].scope_name

IssuedPairsKept ==
    \A r \in 1..Len(pairs) : \A k \in 1..Len(pairs[r]) :
        /\ r \in 1..Len(pairs') /\ k \in 1..Len(pairs'[r])
        /\ pairs'[r][k] = pairs[r][k]

\* C4: the k-th create call on a registry returns a provider and a consumer
\* tagged with index k (from 0) and the registry's scope name, and no later
\* call, on this registry or another, changes a pair already returned.
C4_IndexOrder == []IndicesInOrder /\ [][IssuedPairsKept]_vars

C4_Witness ==
    \E r \in 1..Len(pairs) :
        /\ Len(pairs[r]) >= 2
        /\ pairs[r][1].consumer.default_context # pairs[r][2].consumer.default_context

\* C5: the hook composed of the factories of registries named "A" and "B",
\* invoked on the absent scope, returns under "__scopebaseScope" a scope that
\* holds both the list of "A" and the list of "B".
C5_BothScopesKept ==
    (/\ InvokedTwoBase
     /\ lastCall.scope = NoneScope
     /\ lastCall.hook.hook.hooks[1].scope_name = "A"
     /\ lastCall.hook.hook.hooks[2].scope_name = "B")
        => /\ "__scopebaseScope" \in DOMAIN lastCall.result
           /\ LET base == lastCall.result["__scopebaseScope"]
              IN /\ base.some
                 /\ {"A", "B"} \subseteq DOMAIN base.map
                 /\ base.map["A"] = Registered(lastCall.hook.hook.hooks[1].contexts)
                 /\ base.map["B"] = Registered(lastCall.hook.hook.hooks[2].contexts)

\* C6, as claimed: for every non-empty list of factories, one factory
\* included, the hook of their composition returns on every scope exactly
\* one entry, keyed "__scopebaseScope".
C6_AlwaysBaseScopeKey ==
    \A fs \in FactoryLists \ {<<>>} : \A s \in InputScopes :
        LET res == ComposeResult(factories, fs)
        IN \A run \in HookRun(FactoryCall(res.tab, res.ret), s) :
              DOMAIN run.result = {"__scopebaseScope"}

\* C6, amended: the hook composed of two or more factories returns exactly
\* one entry, keyed "__scopebaseScope", when a constituent hook returned an
\* entry, and no entry otherwise; composing one factory returns that factory.
C6_BaseScopeKeyOfTwoOrMore ==
    /\ (InvokedComposed /\ Len(lastCall.hook.hook.hooks) >= 2)
          => IF \E i \in 1..Len(lastCall.calls) : lastCall.calls[i].out # EmptyMap
             THEN DOMAIN lastCall.result = {"__scopebaseScope"}
             ELSE lastCall.result = EmptyMap
    /\ \A f \in 1..Len(factories) :
          ComposeResult(factories, <<f>>) = [tab |-> factories, ret |-> f]

C6_Witness ==
    /\ InvokedComposed
    /\ Len(lastCall.hook.hook.hooks) >= 2
    /\ Cardinality(DOMAIN lastCall.next_scopes) = 2
    /\ DOMAIN lastCall.result = {"__scopebaseScope"}

\* C7: the hook of a registry returns exactly one entry, keyed "__scope"
\* followed by the scope name, whose value is a present scope: the input
\* scope's entries (none when absent) with the entry of the scope name set
\* to the registry's own list, and no other key added or removed.
C7_SiblingsKept ==
    InvokedBase =>
        LET name == lastCall.hook.hook.scope_name
            key == "__scope" \o name
            input == IF lastCall.scope.some THEN lastCall.scope.map ELSE EmptyMap
        IN /\ DOMAIN lastCall.result = {key}
           /\ lastCall.result[key].some
           /\ DOMAIN lastCall.result[key].map = DOMAIN input \cup {name}
           /\ \A k \in DOMAIN input \ {name} : lastCall.result[key].map[k] = input[k]
           /\ lastCall.result[key].map[name] = Registered(lastCall.hook.hook.contexts)

C7_Witness ==
    /\ InvokedBase
    /\ lastCall.scope.some
    /\ lastCall.hook.hook.scope_name \in DOMAIN lastCall.scope.map
    /\ DOMAIN lastCall.scope.map \ {lastCall.hook.hook.scope_name} # {}
    /\ lastCall.scope.map[lastCall.hook.hook.scope_name]
          # Registered(lastCall.hook.hook.contexts)

\* C8: at an invocation of a registry's hook the list under the scope name
\* is as long as the number of create calls made on the registry so far, and
\* its i-th element is the default of the i-th call, or the unit value.
C8_ListFollowsCreates ==
    InvokedBase =>
        LET name == lastCall.hook.hook.scope_name
            r == lastCall.hook.hook.contexts
            list == lastCall.result["__scope" \o name].map[name]
        IN /\ Len(list) = Len(pairs[r])
           /\ \A i \in 1..Len(list) :
                 list[i] = IF pairs[r][i].consumer.default_context.some
                           THEN pairs[r][i].consumer.default_context.val
                           ELSE UnitAny

C8_Witness ==
    /\ InvokedBase
    /\ lastCall.hook.created = 0
    /\ LET r == lastCall.hook.hook.contexts
       IN /\ Len(pairs[r]) = 2
          /\ ~pairs[r][1].consumer.default_context.some
          /\ pairs[r][2].consumer.default_context.some

\* C9: the memoized value a Provider exposes is the value it was last
\* rendered with.
C9_MemoFollowsRenders ==
    \A i \in 1..Len(tree) :
        tree[i].kind = "Provider"
            => /\ tree[i].memoized_value = tree[i].value
               /\ tree[i].provided[MemoType("T")] = AnyMemo(tree[i].value)

\* C10: in the hook composed of two factories of registries with the same
\* scope name, each constituent hook is called with the input scope itself,
\* and the folded map holds under "__scope" followed by that name the second
\* hook's output, and nothing else.
C10_LastWriteWins ==
    (InvokedTwoBase
     /\ lastCall.hook.hook.hooks[1].scope_name = lastCall.hook.hook.hooks[2].scope_name)
        => LET name == lastCall.hook.hook.hooks[2].scope_name
               key == "__scope" \o name
           IN /\ Len(lastCall.calls) = 2
              /\ \A i \in 1..2 : lastCall.calls[i].arg = lastCall.scope
              /\ DOMAIN lastCall.next_scopes = {key}
              /\ lastCall.next_scopes[key] = lastCall.calls[2].out[key]
              /\ lastCall.next_scopes[key].map[name]
                    = Registered(lastCall.hook.hook.hooks[2].contexts)
              /\ lastCall.result # EmptyMap

C10_Witness ==
    /\ InvokedTwoBase
    /\ lastCall.hook.hook.hooks[1].scope_name = "A"
    /\ lastCall.hook.hook.hooks[2].scope_name = "A"
    /\ lastCall.calls[1].out # lastCall.calls[2].out
    /\ lastCall.scope.some

====
